---------------------------- MODULE Spec2Model ----------------------------
(***************************************************************************)
(* Model of convert_milthm_assets.py: the asset conversion script.         *)
(*                                                                         *)
(* main() checks the source root, clears the target directory, scans three *)
(* source subtrees into two task lists, submits every task to a            *)
(* ThreadPoolExecutor of max_workers threads and counts completions in an  *)
(* as_completed loop.  The workers run convert_image_to_avif / copy_file,  *)
(* which report through safe_print (one lock acquisition per line).        *)
(*                                                                         *)
(* File names are modelled as (stem, ext) pairs, the suffix being the      *)
(* sequence of its characters, so that Path.suffix, str.lower and          *)
(* Path.with_suffix are computed, not assumed.                             *)
(***************************************************************************)
EXTENDS Integers, Sequences, FiniteSets, TLC

(***************************************************************************)
(* Bounds of the model.                                                    *)
(***************************************************************************)
\* largest number of entries in a source tree of the exhaustive family
MaxEntries == 3
\* number of fonts in the batch tree, one in each of as many nested
\* directories (the batch has BatchFonts + 2 tasks)
BatchFonts == 19

(***************************************************************************)
(* Program constants.                                                      *)
(***************************************************************************)
PoolCap == 32
DefaultCpus == 4
ProgressEvery == 20
BgQuality == 85
PngQuality == 90
JpgQuality == 75

(***************************************************************************)
(* The source tree.  An entry is a directory entry below SOURCE_ROOT.      *)
(*   parent   : the directory holding it, relative to SOURCE_ROOT          *)
(*   stem/ext : its name, split as pathlib splits it (ext keeps its case)  *)
(*   kind     : "file" (regular file) or "dir"                             *)
(*   readable : "yes"; "no" (it cannot be opened or decoded: a directory,  *)
(*              a corrupt image, a file without read permission);          *)
(*              "partial" (it opens, and reading its content fails)        *)
(***************************************************************************)
BgDir == "jpgs/background"
JpgsDir == "jpgs"
FontsDir == "fonts"
FontsSub == "fonts/sub"

\* the directory k levels below fonts/: fonts/sub/.../sub
RECURSIVE FontsAt(_)
FontsAt(k) == IF k = 0 THEN FontsDir ELSE FontsAt(k - 1) \o "/sub"

\* the deepest directory level of a fonts tree of the model
MaxDepth == BatchFonts

\* the directories of a fonts tree, by depth
FontDirs == [k \in 0..MaxDepth |-> FontsAt(k)]

IsFontDir(d) == \E k \in 0..MaxDepth : FontDirs[k] = d

\* the depth of a directory of the fonts tree
DepthOf(d) == CHOOSE k \in 0..MaxDepth : FontDirs[k] = d

\* What Image.open finds in a file, whatever the file is called: the mode
\* of the decoded image, and whether img.info carries a "transparency" entry
\* (a PNG tRNS chunk; palette, greyscale and RGB images can have one).
Pic(m, t) == [mode |-> m, trns |-> t]

Modes == {"1", "L", "LA", "P", "PA", "RGB", "RGBA", "CMYK"}

Pictures ==
    {Pic(m, FALSE) : m \in Modes} \cup {Pic(m, TRUE) : m \in {"P", "L", "RGB"}}

\* the image has transparent pixels to offer: an alpha band or a
\* transparency entry
HasAlpha(p) == p.mode \in {"RGBA", "LA", "PA"} \/ p.trns

\* the pictures of the entries of the fixed trees, by entry id
PicList ==
    << Pic("RGB", FALSE), Pic("P", TRUE), Pic("RGBA", FALSE), Pic("L", FALSE),
       Pic("RGBA", FALSE), Pic("RGB", FALSE), Pic("LA", FALSE),
       Pic("CMYK", FALSE), Pic("P", FALSE) >>

PicOf(i) == PicList[((i - 1) % Len(PicList)) + 1]

Entry(i, p, s, e, k, r) ==
    [id |-> i, parent |-> p, stem |-> s, ext |-> e, kind |-> k, readable |-> r,
     pic |-> PicOf(i)]

\* the same entry holding another picture
WithPic(e, p) == [e EXCEPT !.pic = p]

\* Stem 0 without a suffix is the name "background": entry 13 is the
\* directory jpgs/background itself, which a tree holds explicitly when the
\* directory is empty (a tree with an entry in jpgs/background has the
\* directory too).
Universe ==
    { Entry(1,  BgDir,    1, <<".", "j", "p", "g">>,  "file", "yes"),
      Entry(2,  BgDir,    1, <<".", "P", "N", "G">>,  "file", "yes"),
      Entry(3,  BgDir,    1, <<".", "a", "v", "i", "f">>, "file", "yes"),
      Entry(4,  BgDir,    2, <<".", "p", "n", "g">>,  "dir",  "no"),
      Entry(5,  JpgsDir,  1, <<".", "j", "p", "g">>,  "file", "yes"),
      Entry(6,  JpgsDir,  1, <<".", "p", "n", "g">>,  "file", "yes"),
      Entry(7,  JpgsDir,  3, <<".", "J", "p", "e", "G">>, "file", "no"),
      Entry(8,  JpgsDir,  2, <<".", "p", "n", "g">>,  "dir",  "no"),
      Entry(9,  FontsDir, 1, <<".", "t", "t", "f">>,  "file", "yes"),
      Entry(10, FontsSub, 1, <<".", "t", "t", "f">>,  "file", "yes"),
      Entry(11, FontsDir, 2, <<".", "t", "x", "t">>,  "file", "yes"),
      Entry(12, FontsDir, 3, <<".", "O", "t", "f">>,  "file", "partial"),
      Entry(13, JpgsDir,  0, <<>>,                    "dir",  "no") }

\* the source trees of the exhaustive family: every tree of at most
\* MaxEntries entries of the universe
SmallTrees == { t \in SUBSET Universe : Cardinality(t) <= MaxEntries }

\* The batch tree: one cover, one background already in the target format
\* and BatchFonts fonts, the k-th one alone in the directory k levels below
\* fonts/ (one in sixteen can be read, the others cannot).  No directory
\* holds two files, so the tree has one enumeration order.
BatchTree ==
    { Entry(1, JpgsDir, 1, <<".", "p", "n", "g">>, "file", "yes"),
      Entry(2, BgDir, 1, <<".", "a", "v", "i", "f">>, "file", "yes") }
    \cup { Entry(k + 3, FontsAt(k), k + 3,
                 IF k % 2 = 0 THEN <<".", "t", "t", "f">>
                 ELSE <<".", "W", "o", "f", "f", "2">>,
                 "file", IF k % 16 = 3 THEN "yes" ELSE "no")
             : k \in 0..(BatchFonts - 1) }

\* values of os.cpu_count(); 0 stands for None
CpuCounts == {0, 1, 2, 16}

(***************************************************************************)
(* The target tree.  A target file records who wrote it: by = 0 is a file  *)
(* left by an earlier run, by = id of the source entry otherwise.          *)
(***************************************************************************)
\* An image file in the target tree: its mode and what became of the
\* source's transparency: "opaque" (there was none), "alpha" (kept as an
\* alpha channel), "white" (composited onto white) or "dropped" (discarded
\* without compositing).
Img(m, o) == [mode |-> m, over |-> o]

TFile(d, s, e, b, g) == [dir |-> d, stem |-> s, ext |-> e, by |-> b, img |-> g]

StaleFiles ==
    { TFile("covers", 1, <<".", "a", "v", "i", "f">>, 0, Img("RGB", "opaque")),
      TFile("old", 9, <<".", "a", "v", "i", "f">>, 0, Img("RGB", "opaque")) }

\* target directory states before the run: <<exists, dirs, files>>
Targets0 ==
    { <<FALSE, {}, {}>>,
      <<TRUE, {}, {}>>,
      <<TRUE, {"covers", "old"}, StaleFiles>> }

(***************************************************************************)
(* pathlib / str helpers.                                                  *)
(***************************************************************************)
\* the characters str.lower() changes (ASCII)
UpperCase ==
    {"A", "B", "C", "D", "E", "F", "G", "H", "I", "J", "K", "L", "M",
     "N", "O", "P", "Q", "R", "S", "T", "U", "V", "W", "X", "Y", "Z"}

\* str.lower() on one ASCII character
LowerChar(c) ==
    IF c \notin UpperCase THEN c
    ELSE CASE c = "A" -> "a" [] c = "B" -> "b" [] c = "C" -> "c" [] c = "D" -> "d"
           [] c = "E" -> "e" [] c = "F" -> "f" [] c = "G" -> "g" [] c = "H" -> "h"
           [] c = "I" -> "i" [] c = "J" -> "j" [] c = "K" -> "k" [] c = "L" -> "l"
           [] c = "M" -> "m" [] c = "N" -> "n" [] c = "O" -> "o" [] c = "P" -> "p"
           [] c = "Q" -> "q" [] c = "R" -> "r" [] c = "S" -> "s" [] c = "T" -> "t"
           [] c = "U" -> "u" [] c = "V" -> "v" [] c = "W" -> "w" [] c = "X" -> "x"
           [] c = "Y" -> "y" [] c = "Z" -> "z"

\* str.lower() on a suffix: every character lower-cased
Lower(e) == [i \in 1..Len(e) |-> LowerChar(e[i])]

\* Path.with_suffix('.avif').name
WithSuffixAvif(e) == [stem |-> e.stem, ext |-> <<".", "a", "v", "i", "f">>]

\* Path.is_file()
IsFile(e) == e.kind = "file"

\* mkdir(parents=True, exist_ok=True) of a directory below TARGET_ASSETS
Parents(d) ==
    IF IsFontDir(d) THEN {FontDirs[j] : j \in 0..DepthOf(d)} ELSE {d}

\* every order of the entries of S
RECURSIVE Perms(_)
Perms(S) ==
    IF S = {} THEN {<<>>}
    ELSE UNION {{<<x>> \o t : t \in Perms(S \ {x})} : x \in S}

\* The listings of a directory whose entries are S: the file system returns
\* the entries in an order of its own (os.scandir), so every order is
\* possible.
Listing(S) == Perms(S)

Min(a, b) == IF a <= b THEN a ELSE b

\* max_workers = min(32, (os.cpu_count() or 4) * 2)
MaxWorkers(c) == Min(PoolCap, (IF c # 0 THEN c ELSE DefaultCpus) * 2)

(***************************************************************************)
(* State.                                                                  *)
(***************************************************************************)
VARIABLES
    srcExists,     \* SOURCE_ROOT.exists()
    src,           \* the entries of the source tree
    cpu_count,     \* os.cpu_count() (0 = None)
    tgtExists,     \* TARGET_ASSETS.exists()
    tgtDirs,       \* directories below TARGET_ASSETS
    tgtFiles,      \* files below TARGET_ASSETS
    pcMain,        \* position of main()
    max_workers,   \* main's max_workers (0 before it is computed)
    image_tasks,   \* main's image_tasks list
    copy_tasks,    \* main's copy_tasks list
    total_images,  \* main's total_images (-1 before it is computed)
    total_fonts,   \* main's total_fonts (-1 before it is computed)
    submitted,     \* number of work items submitted to the executor
    taken,         \* number of work items taken from the executor's queue
    fstate,        \* state of each submitted future
    starts,        \* per work item: how many times its function was started
    result,        \* per work item: "none", "ok" or "failed"
    printed,       \* per work item: the kinds of the lines it has printed
    wtask,         \* per worker thread: the work item it runs (0 = idle)
    wpc,           \* per worker thread: its position in the function
    yielded,       \* number of futures as_completed has yielded
    counter,       \* counter["done"]
    done,          \* main's local variable done
    counter_lock,  \* holder of counter_lock ("free" or "main")
    print_lock,    \* holder of _print_lock (-1 free, 0 main, w worker)
    progressLog    \* the counts reported by progress lines, in order

fsVars == <<srcExists, src, cpu_count, tgtExists, tgtDirs, tgtFiles>>
scanVars == <<image_tasks, copy_tasks, total_images, total_fonts>>
poolVars == <<submitted, taken, fstate, starts, result, printed, wtask, wpc>>
loopVars == <<yielded, counter, done, counter_lock>>
outVars == <<print_lock, progressLog>>
vars == <<fsVars, pcMain, max_workers, scanVars, poolVars, loopVars, outVars>>

\* the work items in submission order: img_futures, then copy_futures
NTasks == Len(image_tasks) + Len(copy_tasks)
ItemFn(i) == IF i <= Len(image_tasks) THEN "convert_image_to_avif" ELSE "copy_file"
ItemSrc(i) ==
    IF i <= Len(image_tasks) THEN image_tasks[i].src
    ELSE copy_tasks[i - Len(image_tasks)].src
ItemDst(i) ==
    IF i <= Len(image_tasks) THEN image_tasks[i].dst
    ELSE copy_tasks[i - Len(image_tasks)].dst

InitCommon ==
    /\ pcMain = "start"
    /\ max_workers = 0
    /\ image_tasks = <<>>
    /\ copy_tasks = <<>>
    /\ total_images = -1
    /\ total_fonts = -1
    /\ submitted = 0
    /\ taken = 0
    /\ fstate = <<>>
    /\ starts = <<>>
    /\ result = <<>>
    /\ printed = <<>>
    /\ wtask = <<>>
    /\ wpc = <<>>
    /\ yielded = 0
    /\ counter = 0
    /\ done = 0
    /\ counter_lock = "free"
    /\ print_lock = -1
    /\ progressLog = <<>>

InitTarget ==
    \E t \in Targets0 :
        /\ tgtExists = t[1]
        /\ tgtDirs = t[2]
        /\ tgtFiles = t[3]

\* a run without a source root
InitNoSource ==
    /\ srcExists = FALSE
    /\ src = {}
    /\ cpu_count \in CpuCounts
    /\ InitTarget

\* the entries of the largest trees: the background and cover entries that
\* the rules treat differently
Core == {e \in Universe : e.id \in {1, 2, 3, 4, 5, 6, 8}}

\* the size of the trees explored on a machine: MaxEntries on the smallest
\* one (two workers), one entry less on the largest one (where the pool is
\* capped), two less on the others
TreeSize(c) ==
    CASE c = 1  -> MaxEntries
      [] c = 16 -> MaxEntries - 1
      [] OTHER  -> MaxEntries - 2

\* the exhaustive family: on each machine every tree of the universe of
\* fewer than TreeSize entries, and every tree of TreeSize core entries
InitSmall ==
    /\ srcExists = TRUE
    /\ src \in SmallTrees
    /\ cpu_count \in CpuCounts
    /\ Cardinality(src) <= TreeSize(cpu_count)
    /\ Cardinality(src) = TreeSize(cpu_count) => src \subseteq Core
    /\ InitTarget

\* the batch: more tasks than workers and more than one progress period
InitBatch ==
    /\ srcExists = TRUE
    /\ src = BatchTree
    /\ cpu_count = 1
    /\ tgtExists = TRUE
    /\ tgtDirs = {"covers", "old"}
    /\ tgtFiles = StaleFiles

Init == InitCommon /\ (InitNoSource \/ InitSmall)

BatchInit ==
    /\ InitCommon
    /\ \/ InitBatch
       \/ InitNoSource /\ cpu_count = 1 /\ tgtExists = FALSE

(***************************************************************************)
(* main(): set-up (lines 90-109).                                          *)
(***************************************************************************)
\* lines 90-96: compute max_workers, print the banner
MainStart ==
    /\ pcMain = "start"
    /\ max_workers' = MaxWorkers(cpu_count)
    /\ pcMain' = "check"
    /\ UNCHANGED <<fsVars, scanVars, poolVars, loopVars, outVars>>

\* variant of MainCheckSource: the error is printed but main does not return
MainCheckSourceNoReturn ==
    /\ pcMain = "check"
    /\ pcMain' = "clear"
    /\ UNCHANGED <<fsVars, max_workers, scanVars, poolVars, loopVars, outVars>>

\* variant of MainCheckSource: the target is cleared before the source root
\* is tested
MainCheckSourceAfterClear ==
    /\ pcMain = "check"
    /\ tgtExists' = TRUE
    /\ tgtDirs' = {}
    /\ tgtFiles' = {}
    /\ pcMain' = IF ~srcExists THEN "aborted" ELSE "clear"
    /\ UNCHANGED <<srcExists, src, cpu_count, max_workers, scanVars, poolVars,
                   loopVars, outVars>>

\* lines 98-102: return when the source root does not exist
MainCheckSource ==
    /\ pcMain = "check"
    /\ pcMain' = IF ~srcExists THEN "aborted" ELSE "clear"
    /\ UNCHANGED <<fsVars, max_workers, scanVars, poolVars, loopVars, outVars>>

\* variant of MainClearTarget: mkdir only, the old tree is not removed
MainClearTargetNoRmtree ==
    /\ pcMain = "clear"
    /\ tgtExists' = TRUE
    /\ pcMain' = "scan_bg"
    /\ UNCHANGED <<srcExists, src, cpu_count, tgtDirs, tgtFiles, max_workers,
                   scanVars, poolVars, loopVars, outVars>>

\* lines 104-109: rmtree the target if it exists, then mkdir it
MainClearTarget ==
    /\ pcMain = "clear"
    /\ IF tgtExists
       THEN /\ tgtDirs' = {}
            /\ tgtFiles' = {}
       ELSE UNCHANGED <<tgtDirs, tgtFiles>>
    /\ tgtExists' = TRUE
    /\ pcMain' = "scan_bg"
    /\ UNCHANGED <<srcExists, src, cpu_count, max_workers, scanVars, poolVars,
                   loopVars, outVars>>

(***************************************************************************)
(* main(): the scanner (lines 111-151).                                    *)
(***************************************************************************)
\* Path.exists() of a directory of the source tree: the tree holds the
\* directory itself, or an entry in it or below it
DirExists(d) ==
    \E e \in src :
        \/ e.parent = d
        \/ d = BgDir /\ e.parent = JpgsDir /\ e.stem = 0 /\ e.kind = "dir"
        \/ d = JpgsDir /\ e.parent = BgDir
        \/ d = FontsDir /\ IsFontDir(e.parent)

\* Path.glob("*"): the possible listings of the immediate children.  (The
\* listing of jpgs/ also holds the directory background, which has no
\* suffix and yields no task.)
Glob(d) == Listing({e \in src : e.parent = d})

\* the possible listings of the fonts tree from depth k down: the children
\* of a directory come before those of its subdirectory
RECURSIVE RGlobFrom(_)
RGlobFrom(k) ==
    IF k > MaxDepth THEN {<<>>}
    ELSE { a \o b : a \in Listing({e \in src : e.parent = FontDirs[k]}),
                    b \in RGlobFrom(k + 1) }

\* Path.rglob("*") on a directory of the fonts tree: the possible listings
\* of the children at any depth
RGlob(d) == RGlobFrom(DepthOf(d))

\* the target directory of a font: TARGET_ASSETS / "fonts" / relative_path
\* (relative_path is taken from fonts/, and SOURCE_ROOT/fonts/x mirrors to
\* TARGET_ASSETS/fonts/x: the directory has the same name in both trees)
FontTargetDir(e) == e.parent

BgExts == {<<".", "j", "p", "g">>, <<".", "j", "p", "e", "g">>, <<".", "p", "n", "g">>, <<".", "a", "v", "i", "f">>}
CoverExts == {<<".", "j", "p", "g">>, <<".", "j", "p", "e", "g">>, <<".", "p", "n", "g">>}
FontExts == {<<".", "t", "t", "f">>, <<".", "o", "t", "f">>, <<".", "w", "o", "f", "f">>, <<".", "w", "o", "f", "f", "2">>}

\* lines 120-126: the loop over the background folder; returns the two lists
RECURSIVE BgLoop(_, _, _)
BgLoop(files, imgs, copies) ==
    IF files = <<>> THEN <<imgs, copies>>
    ELSE LET f == Head(files)
         IN  IF Lower(f.ext) \in BgExts
             THEN IF Lower(f.ext) = <<".", "a", "v", "i", "f">>
                  THEN BgLoop(Tail(files), imgs,
                              Append(copies,
                                     [src |-> f,
                                      dst |-> [dir |-> "backgrounds",
                                               stem |-> f.stem, ext |-> f.ext]]))
                  ELSE BgLoop(Tail(files),
                              Append(imgs,
                                     [src |-> f,
                                      dst |-> [dir |-> "backgrounds",
                                               stem |-> WithSuffixAvif(f).stem,
                                               ext |-> WithSuffixAvif(f).ext],
                                      q |-> BgQuality]),
                              copies)
             ELSE BgLoop(Tail(files), imgs, copies)

\* lines 115-126
MainScanBackgrounds ==
    /\ pcMain = "scan_bg"
    /\ IF DirExists(BgDir)
       THEN \E files \in Glob(BgDir) :
                LET r == BgLoop(files, image_tasks, copy_tasks)
                IN  /\ tgtDirs' = tgtDirs \cup Parents("backgrounds")
                    /\ image_tasks' = r[1]
                    /\ copy_tasks' = r[2]
       ELSE UNCHANGED <<tgtDirs, image_tasks, copy_tasks>>
    /\ pcMain' = "scan_covers"
    /\ UNCHANGED <<srcExists, src, cpu_count, tgtExists, tgtFiles, max_workers,
                   total_images, total_fonts, poolVars, loopVars, outVars>>

\* variant of CoverLoop: the entries are selected by suffix alone, as the
\* background loop does
RECURSIVE CoverLoopNoIsFile(_, _)
CoverLoopNoIsFile(files, imgs) ==
    IF files = <<>> THEN imgs
    ELSE LET f == Head(files)
         IN  IF Lower(f.ext) \in CoverExts
             THEN CoverLoopNoIsFile(Tail(files),
                            Append(imgs,
                                   [src |-> f,
                                    dst |-> [dir |-> "covers",
                                             stem |-> WithSuffixAvif(f).stem,
                                             ext |-> WithSuffixAvif(f).ext],
                                    q |-> IF Lower(f.ext) = <<".", "p", "n", "g">>
                                          THEN PngQuality ELSE JpgQuality]))
             ELSE CoverLoopNoIsFile(Tail(files), imgs)

\* lines 132-136: the loop over the jpgs folder
RECURSIVE CoverLoop(_, _)
CoverLoop(files, imgs) ==
    IF files = <<>> THEN imgs
    ELSE LET f == Head(files)
         IN  IF IsFile(f) /\ Lower(f.ext) \in CoverExts
             THEN CoverLoop(Tail(files),
                            Append(imgs,
                                   [src |-> f,
                                    dst |-> [dir |-> "covers",
                                             stem |-> WithSuffixAvif(f).stem,
                                             ext |-> WithSuffixAvif(f).ext],
                                    q |-> IF Lower(f.ext) = <<".", "p", "n", "g">>
                                          THEN PngQuality ELSE JpgQuality]))
             ELSE CoverLoop(Tail(files), imgs)

\* variant of MainScanCovers: the cover tasks are put ahead of the tasks
\* already in the list
MainScanCoversAhead ==
    /\ pcMain = "scan_covers"
    /\ tgtDirs' = tgtDirs \cup Parents("covers")
    /\ \E files \in Glob(JpgsDir) :
          image_tasks' = CoverLoop(files, <<>>) \o image_tasks
    /\ pcMain' = "scan_fonts"
    /\ UNCHANGED <<srcExists, src, cpu_count, tgtExists, tgtFiles, max_workers,
                   copy_tasks, total_images, total_fonts, poolVars, loopVars,
                   outVars>>

\* lines 128-136
MainScanCovers ==
    /\ pcMain = "scan_covers"
    /\ tgtDirs' = tgtDirs \cup Parents("covers")
    /\ \E files \in Glob(JpgsDir) :
          image_tasks' = CoverLoop(files, image_tasks)
    /\ pcMain' = "scan_fonts"
    /\ UNCHANGED <<srcExists, src, cpu_count, tgtExists, tgtFiles, max_workers,
                   copy_tasks, total_images, total_fonts, poolVars, loopVars,
                   outVars>>

\* lines 141-145: the loop over the fonts tree
RECURSIVE FontLoop(_, _)
FontLoop(files, copies) ==
    IF files = <<>> THEN copies
    ELSE LET f == Head(files)
         IN  IF IsFile(f) /\ Lower(f.ext) \in FontExts
             THEN FontLoop(Tail(files),
                           Append(copies,
                                  [src |-> f,
                                   dst |-> [dir |-> FontTargetDir(f),
                                            stem |-> f.stem, ext |-> f.ext]]))
             ELSE FontLoop(Tail(files), copies)

\* lines 138-145
MainScanFonts ==
    /\ pcMain = "scan_fonts"
    /\ IF DirExists(FontsDir)
       THEN \E files \in RGlob(FontsDir) :
                copy_tasks' = FontLoop(files, copy_tasks)
       ELSE UNCHANGED copy_tasks
    /\ pcMain' = "totals"
    /\ UNCHANGED <<fsVars, max_workers, image_tasks, total_images, total_fonts,
                   poolVars, loopVars, outVars>>

\* lines 147-158: the totals, the counter and the executor
MainTotals ==
    /\ pcMain = "totals"
    /\ total_images' = Len(image_tasks)
    /\ total_fonts' = Len(copy_tasks)
    /\ counter' = 0
    /\ counter_lock' = "free"
    /\ starts' = [i \in 1..NTasks |-> 0]
    /\ result' = [i \in 1..NTasks |-> "none"]
    /\ printed' = [i \in 1..NTasks |-> <<>>]
    /\ pcMain' = IF NTasks = 0 THEN "loop" ELSE "submit"
    /\ UNCHANGED <<fsVars, max_workers, image_tasks, copy_tasks, submitted,
                   taken, fstate, wtask, wpc, yielded, done, print_lock,
                   progressLog>>

(***************************************************************************)
(* main(): the pool (lines 158-179).                                       *)
(***************************************************************************)
\* futures that have finished
Finished == {i \in 1..Len(fstate) : fstate[i] = "FINISHED"}

\* work items whose function is executing
Running == {i \in 1..Len(fstate) : fstate[i] = "RUNNING"}

\* total = len(all_futures)
Total == Len(fstate)

\* variant of MainSubmit: a new thread for every submitted work item
MainSubmitUnbounded ==
    /\ pcMain = "submit"
    /\ submitted < NTasks
    /\ submitted' = submitted + 1
    /\ fstate' = Append(fstate, "PENDING")
    /\ wtask' = Append(wtask, 0)
    /\ wpc' = Append(wpc, "idle")
    /\ pcMain' = IF submitted + 1 = NTasks THEN "loop" ELSE "submit"
    /\ UNCHANGED <<fsVars, max_workers, scanVars, taken, starts, result,
                   printed, loopVars, outVars>>

\* lines 160-168: executor.submit of the next work item.  The executor starts
\* a new thread while it has fewer than max_workers, unless it finds a worker
\* that has already finished a work item and is free to take this one.  (The
\* executor counts the free workers; the model allows both outcomes as soon
\* as one work item has finished, which includes every outcome of the count.)
MainSubmit ==
    /\ pcMain = "submit"
    /\ submitted < NTasks
    /\ submitted' = submitted + 1
    /\ fstate' = Append(fstate, "PENDING")
    /\ \/ /\ Len(wtask) < max_workers
          /\ wtask' = Append(wtask, 0)
          /\ wpc' = Append(wpc, "idle")
       \/ /\ Len(wtask) >= max_workers \/ Finished # {}
          /\ UNCHANGED <<wtask, wpc>>
    /\ pcMain' = IF submitted + 1 = NTasks THEN "loop" ELSE "submit"
    /\ UNCHANGED <<fsVars, max_workers, scanVars, taken, starts, result,
                   printed, loopVars, outVars>>

\* variant of MainNextCompleted: the loop runs over the futures as
\* submitted, finished or not
MainNextCompletedAny ==
    /\ pcMain = "loop"
    /\ yielded < Total
    /\ counter_lock = "free"
    /\ yielded' = yielded + 1
    /\ counter_lock' = "main"
    /\ pcMain' = "incr"
    /\ UNCHANGED <<fsVars, max_workers, scanVars, poolVars, counter, done,
                   outVars>>

\* line 173: as_completed yields one more finished future; lines 174:
\* main enters the counter_lock block
MainNextCompleted ==
    /\ pcMain = "loop"
    /\ yielded < Total
    /\ yielded < Cardinality(Finished)
    /\ counter_lock = "free"
    /\ yielded' = yielded + 1
    /\ counter_lock' = "main"
    /\ pcMain' = "incr"
    /\ UNCHANGED <<fsVars, max_workers, scanVars, poolVars, counter, done,
                   outVars>>

\* variant of MainIncrement: the incremented value is not stored
MainIncrementLost ==
    /\ pcMain = "incr"
    /\ counter' = counter
    /\ done' = counter + 1
    /\ counter_lock' = "free"
    /\ pcMain' = "test"
    /\ UNCHANGED <<fsVars, max_workers, scanVars, poolVars, yielded, outVars>>

\* lines 175-176: increment and read the counter, leave the lock block
MainIncrement ==
    /\ pcMain = "incr"
    /\ counter' = counter + 1
    /\ done' = counter + 1
    /\ counter_lock' = "free"
    /\ pcMain' = "test"
    /\ UNCHANGED <<fsVars, max_workers, scanVars, poolVars, yielded, outVars>>

\* variant of MainProgressCheck: every count is reported
MainProgressCheckEvery ==
    /\ pcMain = "test"
    /\ pcMain' = "progress"
    /\ UNCHANGED <<fsVars, max_workers, scanVars, poolVars, loopVars, outVars>>

\* line 178: if done % 20 == 0 or done == total
MainProgressCheck ==
    /\ pcMain = "test"
    /\ pcMain' = IF done % ProgressEvery = 0 \/ done = Total
                 THEN "progress" ELSE "loop"
    /\ UNCHANGED <<fsVars, max_workers, scanVars, poolVars, loopVars, outVars>>

\* line 179 / 22: safe_print takes _print_lock
MainPrintAcquire ==
    /\ pcMain = "progress"
    /\ print_lock = -1
    /\ print_lock' = 0
    /\ pcMain' = "printing"
    /\ UNCHANGED <<fsVars, max_workers, scanVars, poolVars, loopVars,
                   progressLog>>

\* line 179 / 23: the progress line is printed and the lock released
MainPrintRelease ==
    /\ pcMain = "printing"
    /\ print_lock = 0
    /\ progressLog' = Append(progressLog, done)
    /\ print_lock' = -1
    /\ pcMain' = "loop"
    /\ UNCHANGED <<fsVars, max_workers, scanVars, poolVars, loopVars>>

\* end of the as_completed loop and of the with block: shutdown(wait=True)
MainExitLoop ==
    /\ pcMain = "loop"
    /\ yielded = Total
    /\ \A w \in 1..Len(wtask) : wtask[w] = 0
    /\ taken = submitted
    /\ pcMain' = "summary"
    /\ UNCHANGED <<fsVars, max_workers, scanVars, poolVars, loopVars, outVars>>

\* lines 181-187: the final summary
MainSummary ==
    /\ pcMain = "summary"
    /\ pcMain' = "done"
    /\ UNCHANGED <<fsVars, max_workers, scanVars, poolVars, loopVars, outVars>>

(***************************************************************************)
(* The worker threads.                                                     *)
(***************************************************************************)
Workers == 1..Len(wtask)

\* what Image.open and img.convert can decode, and what shutil.copy2 can
\* read to the end: a sound regular file (on a directory both raise)
CanRead(e) == IsFile(e) /\ e.readable = "yes"

\* what open() can open for reading: a regular file that is not barred
CanOpen(e) == IsFile(e) /\ e.readable # "no"

\* the target tree after writing image g to dst on behalf of source entry e
WriteFile(dst, e, g) ==
    {f \in tgtFiles : ~(f.dir = dst.dir /\ f.stem = dst.stem /\ f.ext = dst.ext)}
    \cup {TFile(dst.dir, dst.stem, dst.ext, e.id, g)}

\* line 40: is_png = source_path.suffix.lower() == '.png'
IsPng(e) == Lower(e.ext) = <<".", "p", "n", "g">>

\* img.convert(m) for m in RGBA, RGB: to RGBA the transparency becomes the
\* alpha channel, to RGB it is discarded
ImgConvert(p, m) ==
    IF m = "RGBA"
    THEN Img("RGBA", IF HasAlpha(p) THEN "alpha" ELSE "opaque")
    ELSE Img("RGB", IF HasAlpha(p) THEN "dropped" ELSE "opaque")

\* lines 55-60: a white RGB image with img pasted through its alpha band
PasteOnWhite(p) == Img("RGB", "white")

\* lines 42-63: the image handed to img.save
Converted(p, is_png) ==
    IF is_png
    THEN IF p.mode = "RGBA" THEN Img("RGBA", "alpha")
         ELSE IF p.mode = "LA" THEN ImgConvert(p, "RGBA")
         ELSE IF p.mode = "P" THEN ImgConvert(p, "RGBA")
         ELSE ImgConvert(p, "RGBA")
    ELSE IF p.mode \in {"RGBA", "LA"} THEN PasteOnWhite(p)
         ELSE IF p.mode # "RGB" THEN ImgConvert(p, "RGB")
         ELSE Img("RGB", IF p.trns THEN "dropped" ELSE "opaque")

\* shutil.copy2: the file as it is
Copied(p) == Img(p.mode, IF HasAlpha(p) THEN "alpha" ELSE "opaque")

\* a target file that has been opened for writing and holds nothing yet
Empty == Img("none", "empty")

\* a target file holding bytes of two writers: the whole of what one
\* wrote, followed by the end of what a longer earlier write left
Garbled == Img("none", "garbled")

\* variant of WorkerTake: the work item stays in the queue
WorkerTakeNoPop(w) ==
    /\ wtask[w] = 0
    /\ taken < submitted
    /\ taken' = taken
    /\ wtask' = [wtask EXCEPT ![w] = taken + 1]
    /\ wpc' = [wpc EXCEPT ![w] = "run"]
    /\ fstate' = [fstate EXCEPT ![taken + 1] = "RUNNING"]
    /\ starts' = [starts EXCEPT ![taken + 1] = @ + 1]
    /\ UNCHANGED <<fsVars, pcMain, max_workers, scanVars, submitted, result,
                   printed, loopVars, outVars>>

\* a pool thread takes the next work item from the executor's queue
WorkerTake(w) ==
    /\ wtask[w] = 0
    /\ taken < submitted
    /\ taken' = taken + 1
    /\ wtask' = [wtask EXCEPT ![w] = taken + 1]
    /\ wpc' = [wpc EXCEPT ![w] = "run"]
    /\ fstate' = [fstate EXCEPT ![taken + 1] = "RUNNING"]
    /\ starts' = [starts EXCEPT ![taken + 1] = @ + 1]
    /\ UNCHANGED <<fsVars, pcMain, max_workers, scanVars, submitted, result,
                   printed, loopVars, outVars>>

\* the target path holds nothing: it has been opened for writing (created or
\* truncated) and no writer has written to it since
Fresh(dst) ==
    \A f \in tgtFiles :
        (f.dir = dst.dir /\ f.stem = dst.stem /\ f.ext = dst.ext) => f.img = Empty

\* variant of ConvertImage: no except clause, the error leaves the function
ConvertImageNoCatch(w) ==
    /\ wtask[w] # 0
    /\ wpc[w] = "run"
    /\ ItemFn(wtask[w]) = "convert_image_to_avif"
    /\ LET i == wtask[w]
       IN  IF CanRead(ItemSrc(i))
           THEN /\ tgtDirs' = tgtDirs \cup Parents(ItemDst(i).dir)
                /\ tgtFiles' = WriteFile(ItemDst(i), ItemSrc(i), Empty)
                /\ wpc' = [wpc EXCEPT ![w] = "saving"]
                /\ UNCHANGED <<wtask, fstate, result>>
           ELSE /\ tgtDirs' = IF CanOpen(ItemSrc(i))
                              THEN tgtDirs \cup Parents(ItemDst(i).dir)
                              ELSE tgtDirs
                /\ UNCHANGED tgtFiles
                /\ wpc' = [wpc EXCEPT ![w] = "idle"]
                /\ wtask' = [wtask EXCEPT ![w] = 0]
                /\ fstate' = [fstate EXCEPT ![i] = "FINISHED"]
                /\ result' = [result EXCEPT ![i] = "failed"]
    /\ UNCHANGED <<srcExists, src, cpu_count, tgtExists, pcMain, max_workers,
                   scanVars, submitted, taken, starts, printed, loopVars,
                   outVars>>

\* convert_image_to_avif, lines 35-66: Image.open (fails on what cannot be
\* opened), mkdir, the conversion (fails on what cannot be decoded), and
\* img.save opening the target file, which creates or truncates it
ConvertImage(w) ==
    /\ wtask[w] # 0
    /\ wpc[w] = "run"
    /\ ItemFn(wtask[w]) = "convert_image_to_avif"
    /\ LET i == wtask[w]
       IN  IF CanRead(ItemSrc(i))
           THEN /\ tgtDirs' = tgtDirs \cup Parents(ItemDst(i).dir)
                /\ tgtFiles' = WriteFile(ItemDst(i), ItemSrc(i), Empty)
                /\ wpc' = [wpc EXCEPT ![w] = "saving"]
           ELSE /\ tgtDirs' = IF CanOpen(ItemSrc(i))
                              THEN tgtDirs \cup Parents(ItemDst(i).dir)
                              ELSE tgtDirs
                /\ UNCHANGED tgtFiles
                /\ wpc' = [wpc EXCEPT ![w] = "fail"]
    /\ UNCHANGED <<srcExists, src, cpu_count, tgtExists, pcMain, max_workers,
                   scanVars, submitted, taken, fstate, starts, result, printed,
                   wtask, loopVars, outVars>>

\* convert_image_to_avif, line 66: img.save writes the encoded image from
\* the start of the target file.  When another writer has written the file
\* since it was opened, what is left of that writer's bytes may follow.
ConvertSave(w) ==
    /\ wtask[w] # 0
    /\ wpc[w] = "saving"
    /\ LET i == wtask[w]
       IN  \/ tgtFiles' = WriteFile(ItemDst(i), ItemSrc(i),
                                    Converted(ItemSrc(i).pic, IsPng(ItemSrc(i))))
           \/ /\ ~Fresh(ItemDst(i))
              /\ tgtFiles' = WriteFile(ItemDst(i), ItemSrc(i), Garbled)
    /\ wpc' = [wpc EXCEPT ![w] = "name"]
    /\ UNCHANGED <<srcExists, src, cpu_count, tgtExists, tgtDirs, pcMain,
                   max_workers, scanVars, submitted, taken, fstate, starts,
                   result, printed, wtask, loopVars, outVars>>

\* copy_file, lines 83-84: mkdir, then copy2 opens the source and opens
\* (creates or truncates) the target
CopyFile(w) ==
    /\ wtask[w] # 0
    /\ wpc[w] = "run"
    /\ ItemFn(wtask[w]) = "copy_file"
    /\ LET i == wtask[w]
       IN  /\ tgtDirs' = tgtDirs \cup Parents(ItemDst(i).dir)
           /\ IF CanOpen(ItemSrc(i))
              THEN /\ tgtFiles' = WriteFile(ItemDst(i), ItemSrc(i), Empty)
                   /\ wpc' = [wpc EXCEPT ![w] = "copying"]
              ELSE /\ UNCHANGED tgtFiles
                   /\ wpc' = [wpc EXCEPT ![w] = "fail"]
    /\ UNCHANGED <<srcExists, src, cpu_count, tgtExists, pcMain, max_workers,
                   scanVars, submitted, taken, fstate, starts, result, printed,
                   wtask, loopVars, outVars>>

\* copy_file, line 84: copy2 reads the source and writes the target from
\* its start.  When the read fails the target stays as it is; when another
\* writer has written the file since it was opened, what is left of that
\* writer's bytes may follow.
CopyWrite(w) ==
    /\ wtask[w] # 0
    /\ wpc[w] = "copying"
    /\ LET i == wtask[w]
       IN  IF CanRead(ItemSrc(i))
           THEN /\ \/ tgtFiles' = WriteFile(ItemDst(i), ItemSrc(i),
                                            Copied(ItemSrc(i).pic))
                   \/ /\ ~Fresh(ItemDst(i))
                      /\ tgtFiles' = WriteFile(ItemDst(i), ItemSrc(i), Garbled)
                /\ wpc' = [wpc EXCEPT ![w] = "copied"]
           ELSE /\ UNCHANGED tgtFiles
                /\ wpc' = [wpc EXCEPT ![w] = "fail"]
    /\ UNCHANGED <<srcExists, src, cpu_count, tgtExists, tgtDirs, pcMain,
                   max_workers, scanVars, submitted, taken, fstate, starts,
                   result, printed, wtask, loopVars, outVars>>

\* variant of PrintAcquire: the lock is taken without waiting for its holder
PrintAcquireNoWait(w) ==
    /\ wtask[w] # 0
    /\ wpc[w] \in {"name", "size", "fail", "copied"}
    /\ print_lock # w
    /\ print_lock' = w
    /\ UNCHANGED <<fsVars, pcMain, max_workers, scanVars, poolVars, loopVars,
                   progressLog>>

\* safe_print, line 22: the worker takes _print_lock for its next line
PrintAcquire(w) ==
    /\ wtask[w] # 0
    /\ wpc[w] \in {"name", "size", "fail", "copied"}
    /\ print_lock = -1
    /\ print_lock' = w
    /\ UNCHANGED <<fsVars, pcMain, max_workers, scanVars, poolVars, loopVars,
                   progressLog>>

\* variant of PrintRelease: the lock is not released
PrintReleaseKeepLock(w) ==
    /\ wtask[w] # 0
    /\ print_lock = w
    /\ LET i == wtask[w]
           k == wpc[w]
       IN  /\ printed' = [printed EXCEPT ![i] = Append(@, k)]
           /\ IF k = "name"
              THEN /\ wpc' = [wpc EXCEPT ![w] = "size"]
              ELSE wpc' = [wpc EXCEPT ![w] = "return"]
    /\ print_lock' = print_lock
    /\ UNCHANGED <<fsVars, pcMain, max_workers, scanVars, submitted, taken,
                   fstate, starts, result, wtask, loopVars, progressLog>>

\* safe_print, line 23: the line is printed and the lock released; after
\* the name line comes the size line, after any other the return
PrintRelease(w) ==
    /\ wtask[w] # 0
    /\ print_lock = w
    /\ LET i == wtask[w]
           k == wpc[w]
       IN  /\ printed' = [printed EXCEPT ![i] = Append(@, k)]
           /\ IF k = "name"
              THEN /\ wpc' = [wpc EXCEPT ![w] = "size"]
              ELSE wpc' = [wpc EXCEPT ![w] = "return"]
    /\ print_lock' = -1
    /\ UNCHANGED <<fsVars, pcMain, max_workers, scanVars, submitted, taken,
                   fstate, starts, result, wtask, loopVars, progressLog>>

\* the function returns (lines 75, 78, 85, 87 are its last statements) and
\* the executor finishes its future; the thread is free for the next item
WorkerReturn(w) ==
    /\ wtask[w] # 0
    /\ wpc[w] = "return"
    /\ LET i == wtask[w]
       IN  /\ fstate' = [fstate EXCEPT ![i] = "FINISHED"]
           /\ result' = [result EXCEPT
                           ![i] = IF \E k \in 1..Len(printed[i]) :
                                        printed[i][k] = "fail"
                                  THEN "failed" ELSE "ok"]
    /\ wtask' = [wtask EXCEPT ![w] = 0]
    /\ wpc' = [wpc EXCEPT ![w] = "idle"]
    /\ UNCHANGED <<fsVars, pcMain, max_workers, scanVars, submitted, taken,
                   starts, printed, loopVars, outVars>>

(***************************************************************************)
(* Specifications.                                                         *)
(***************************************************************************)
MainStep ==
    \/ MainStart
    \/ MainCheckSource
    \/ MainClearTarget
    \/ MainScanBackgrounds
    \/ MainScanCovers
    \/ MainScanFonts
    \/ MainTotals
    \/ MainSubmit
    \/ MainNextCompleted
    \/ MainIncrement
    \/ MainProgressCheck
    \/ MainPrintAcquire
    \/ MainPrintRelease
    \/ MainExitLoop
    \/ MainSummary

WorkerStep(w) ==
    /\ w \in Workers
    /\ \/ WorkerTake(w)
       \/ ConvertImage(w)
       \/ ConvertSave(w)
       \/ CopyFile(w)
       \/ CopyWrite(w)
       \/ PrintAcquire(w)
       \/ PrintRelease(w)
       \/ WorkerReturn(w)

Next ==
    \/ MainStart
    \/ MainCheckSource
    \/ MainClearTarget
    \/ MainScanBackgrounds
    \/ MainScanCovers
    \/ MainScanFonts
    \/ MainTotals
    \/ MainSubmit
    \/ MainNextCompleted
    \/ MainIncrement
    \/ MainProgressCheck
    \/ MainPrintAcquire
    \/ MainPrintRelease
    \/ MainExitLoop
    \/ MainSummary
    \/ \E w \in Workers : WorkerTake(w)
    \/ \E w \in Workers : ConvertImage(w)
    \/ \E w \in Workers : ConvertSave(w)
    \/ \E w \in Workers : CopyFile(w)
    \/ \E w \in Workers : PrintAcquire(w)
    \/ \E w \in Workers : PrintRelease(w)
    \/ \E w \in Workers : CopyWrite(w)
    \/ \E w \in Workers : WorkerReturn(w)

\* every small source tree, every machine size
Spec == Init /\ [][Next]_vars

\* the batch: more tasks than workers, more than one progress period
BatchSpec == BatchInit /\ [][Next]_vars

\* the OS schedules every runnable thread and every operation on a file
\* terminates: the main thread does not stop while it can take a step, and
\* the pool does not stop while one of its threads can take a step
PoolStep == \E w \in Workers : WorkerStep(w)

Fairness ==
    /\ WF_vars(MainStep)
    /\ WF_vars(PoolStep)

\* the runs in which the pool has two threads (the smallest machine), over
\* trees with one entry of each behaviour: a transcode that succeeds (1, 6),
\* a copy that succeeds (3), a transcode that fails (4), a copy that fails
\* (12) and an entry no rule matches (11)
FairInit ==
    /\ InitCommon
    /\ \/ InitNoSource
       \/ /\ srcExists = TRUE
          /\ src \in SmallTrees
          /\ cpu_count = 1
          /\ \A e \in src : e.id \in {1, 3, 4, 6, 11, 12}
          /\ InitTarget

FairSpec == FairInit /\ [][Next]_vars /\ Fairness

\* the batch under the same scheduling: with more than ProgressEvery tasks
\* main prints a progress line while pool threads are still printing theirs
FairBatchSpec == BatchInit /\ [][Next]_vars /\ Fairness

(***************************************************************************)
(* The runs that exercise the conversion: one image file of any name the   *)
(* rules transcode, holding any picture, next to at most MaxEntries - 1    *)
(* other entries (a copy, a transcode that fails, a copy that fails).      *)
(***************************************************************************)
ImageEntries == {e \in Universe : e.id \in {1, 2, 5, 6}}

Companions == {e \in Universe : e.id \in {3, 7, 12}}

ModeTrees ==
    { {WithPic(e, p)} \cup c :
        e \in ImageEntries, p \in Pictures,
        c \in {d \in SUBSET Companions : Cardinality(d) < MaxEntries} }

ModeInit ==
    /\ InitCommon
    /\ \/ /\ srcExists = TRUE
          /\ src \in ModeTrees
          /\ cpu_count = 1
          /\ tgtExists = TRUE
          /\ tgtDirs = {"covers", "old"}
          /\ tgtFiles = StaleFiles
       \/ InitNoSource /\ cpu_count = 1 /\ tgtExists = FALSE

ModeSpec == ModeInit /\ [][Next]_vars

(***************************************************************************)
(* Properties.                                                             *)
(***************************************************************************)
\* main has left the with block: the scheduler has returned
Returned == pcMain \in {"summary", "done"}

\* the work items, known once the executor exists
Items == 1..Len(result)

\* C1: when the scheduler returns, the completed counter equals the number
\* of tasks N and exactly N task completions have happened, whatever the
\* completion order and the worker count.
C1_CounterEqualsTasks ==
    Returned =>
        /\ counter = Len(image_tasks) + Len(copy_tasks)
        /\ yielded = counter
        /\ Cardinality({i \in Items : result[i] # "none"}) = counter
        /\ Cardinality(Finished) = counter

C1_Witness ==
    /\ pcMain = "done"
    /\ counter >= 2
    /\ max_workers = PoolCap

\* C2: at every moment at most W operations execute, where W is
\* min(32, 2 x available parallelism), fixed when main starts.
C2_AtMostWRunning ==
    pcMain # "start" =>
        /\ max_workers = (IF 2 * (IF cpu_count = 0 THEN 4 ELSE cpu_count) < 32
                          THEN 2 * (IF cpu_count = 0 THEN 4 ELSE cpu_count)
                          ELSE 32)
        /\ Cardinality(Running) <= max_workers
        /\ Cardinality({w \in Workers : wtask[w] # 0}) <= max_workers

\* the pool is saturated: W operations execute and a work item waits
C2_Witness ==
    /\ Cardinality(Running) = max_workers
    /\ taken < submitted

\* C3: every task is executed exactly once, by one worker, and yields one
\* final outcome; nothing is retried, nothing is dropped.
OutcomeLines(i) ==
    Len(SelectSeq(printed[i], LAMBDA k : k \in {"name", "fail", "copied"}))

\* C3 (formula): starts, running threads and outcome lines per work item
\* never exceed one, and at return each work item has exactly one of each.
C3_ExactlyOnce ==
    /\ \A i \in Items :
          /\ starts[i] <= 1
          /\ Cardinality({w \in Workers : wtask[w] = i}) <= 1
          /\ OutcomeLines(i) <= 1
          /\ result[i] # "none" => starts[i] = 1 /\ OutcomeLines(i) = 1
    /\ Returned =>
          /\ Len(result) = Len(image_tasks) + Len(copy_tasks)
          /\ \A i \in Items : starts[i] = 1 /\ result[i] \in {"ok", "failed"}

C3_Witness ==
    /\ pcMain = "done"
    /\ \E i, j \in Items : result[i] = "failed" /\ result[j] = "ok"
    /\ Len(wtask) < Len(result)

\* C4: a failing task is caught inside its own operation: when k of the N
\* tasks fail, the other tasks run and report success, exactly k failures
\* are reported, no task is cancelled and the summary is reached.
C4_FailureIsolated ==
    Returned =>
        /\ \A i \in Items :
              /\ fstate[i] = "FINISHED"
              /\ starts[i] = 1
              /\ IF CanRead(ItemSrc(i))
                 THEN /\ result[i] = "ok"
                      /\ printed[i] \in {<<"name", "size">>, <<"copied">>}
                 ELSE /\ result[i] = "failed"
                      /\ printed[i] = <<"fail">>
        /\ Cardinality({i \in Items : printed[i] = <<"fail">>})
             = Cardinality({i \in Items : ItemSrc(i).readable # "yes"})

C4_Witness ==
    /\ pcMain = "done"
    /\ \E i, j \in Items :
          /\ ItemFn(i) = "convert_image_to_avif"
          /\ printed[i] = <<"fail">>
          /\ i < j
          /\ result[j] = "ok"

\* C5: under fair scheduling every task of a run eventually completes and
\* the run reaches the final summary; the summary is never reached while a
\* task is pending or running.
AllDone ==
    /\ Len(fstate) = Len(image_tasks) + Len(copy_tasks)
    /\ \A i \in 1..Len(fstate) : fstate[i] = "FINISHED" /\ result[i] # "none"

\* C5 (formula): the summary implies every future is finished, and every
\* run with a source root leads to the end of main with every future finished.
C5_PoolDrains ==
    /\ [](Returned => AllDone)
    /\ (srcExists /\ pcMain = "start") ~> (pcMain = "done" /\ AllDone)

C5_Witness ==
    /\ pcMain = "done"
    /\ Len(fstate) > Len(wtask)
    /\ \E i \in Items : result[i] = "failed"

\* C6: a progress line is printed for the count c of a completion exactly
\* when c is a multiple of 20 or c is the total; each such count is reported
\* once and none is skipped.  (Counts are the values 1..total the increments
\* produce.)
Qualifies(c) == c % 20 = 0 \/ c = Len(image_tasks) + Len(copy_tasks)

\* the completions whose loop iteration is over
Processed ==
    IF pcMain \in {"test", "progress", "printing"} THEN counter - 1 ELSE counter

\* C6 (formula): the progress lines printed so far are exactly the
\* qualifying counts among the processed completions, each once, in order.
C6_ProgressLines ==
    progressLog = SelectSeq([c \in 1..Processed |-> c], Qualifies)

C6_Witness ==
    /\ pcMain = "done"
    /\ Len(progressLog) = 2
    /\ progressLog[1] = 20
    /\ progressLog[2] > 20

\* C7: the lines of one task's report are contiguous in the output: while a
\* transcode has printed its name line and not yet its size line, no line of
\* another worker and no progress line is printed.
C7_ReportContiguous ==
    [][\A w \in Workers :
          (wtask[w] # 0 /\ wpc[w] = "size" /\ wpc'[w] = "size") =>
              (printed' = printed /\ progressLog' = progressLog)]_vars

\* C8: the scanner produces exactly one task per source file matching a
\* rule, and no two tasks have the same target path.
MatchesRule(e) ==
    /\ e.kind = "file"
    /\ \/ e.parent = BgDir /\ Lower(e.ext) \in {<<".", "j", "p", "g">>, <<".", "j", "p", "e", "g">>, <<".", "p", "n", "g">>, <<".", "a", "v", "i", "f">>}
       \/ e.parent = JpgsDir /\ Lower(e.ext) \in {<<".", "j", "p", "g">>, <<".", "j", "p", "e", "g">>, <<".", "p", "n", "g">>}
       \/ IsFontDir(e.parent)
            /\ Lower(e.ext) \in {<<".", "t", "t", "f">>, <<".", "o", "t", "f">>, <<".", "w", "o", "f", "f">>, <<".", "w", "o", "f", "f", "2">>}

Scanned == pcMain \notin {"start", "check", "aborted", "clear", "scan_bg",
                          "scan_covers", "scan_fonts"}

AllItems == 1..(Len(image_tasks) + Len(copy_tasks))

\* the part of C8 that holds: one task per source file matching a rule
C8_OneTaskPerFile ==
    Scanned =>
        \A e \in src :
            MatchesRule(e) => Cardinality({i \in AllItems : ItemSrc(i) = e}) = 1

\* C8 (formula): one task per source file matching a rule, and no two tasks
\* with the same target path.
C8_DistinctTargets ==
    Scanned =>
        /\ \A e \in src :
              MatchesRule(e) => Cardinality({i \in AllItems : ItemSrc(i) = e}) = 1
        /\ \A i, j \in AllItems : i # j => ItemDst(i) # ItemDst(j)

\* C9: without a source root the run aborts: no task is collected, submitted
\* or executed, and nothing is written under the target directory.
C9_AbortWithoutSource ==
    ~srcExists =>
        /\ pcMain \in {"start", "check", "aborted"}
        /\ image_tasks = <<>> /\ copy_tasks = <<>>
        /\ submitted = 0 /\ Len(wtask) = 0 /\ Len(fstate) = 0
        /\ \A f \in tgtFiles : f.by = 0

C9_Witness ==
    /\ pcMain = "aborted"
    /\ ~srcExists
    /\ tgtFiles = StaleFiles

\* C10: with a source root, the target directory is removed and recreated
\* empty before any task is collected or executed; every file under it
\* afterwards was written by a task of this run.
C10_TargetRecreated ==
    /\ pcMain = "scan_bg" =>
          /\ tgtExists /\ tgtDirs = {} /\ tgtFiles = {}
          /\ image_tasks = <<>> /\ copy_tasks = <<>> /\ submitted = 0
    /\ pcMain \notin {"start", "check", "aborted", "clear"} =>
          /\ tgtExists
          /\ \A f \in tgtFiles :
                \E i \in Items :
                    /\ starts[i] = 1
                    /\ ItemSrc(i).id = f.by
                    /\ ItemDst(i) = [dir |-> f.dir, stem |-> f.stem, ext |-> f.ext]

\* a run over an existing target has ended, with a file at the path where the
\* earlier run had left one
C10_Witness ==
    /\ pcMain = "done"
    /\ \E f \in tgtFiles : f.dir = "covers" /\ f.stem = 1 /\ f.ext = <<".", "a", "v", "i", "f">> /\ f.by # 0
    /\ "old" \notin tgtDirs

\* main is enumerating tasks (lines 115-145)
Scanning == pcMain \in {"scan_bg", "scan_covers", "scan_fonts"}

\* C11: between the start and the end of task enumeration neither the
\* source tree nor the target tree changes.
C11_ScanNoSideEffects ==
    [][Scanning => UNCHANGED <<srcExists, src, tgtExists, tgtDirs, tgtFiles>>]_vars

\* the totals of lines 147-148 have been computed
Totalled == Scanned /\ pcMain # "totals"

\* the image files the background and cover rules match, by extension
ImageFiles ==
    {e \in src : MatchesRule(e) /\ e.parent \in {BgDir, JpgsDir}}

\* the font files the font rule matches
FontFiles ==
    {e \in src : MatchesRule(e) /\ IsFontDir(e.parent)}

\* C12: the reported image total is the number of image files matched by the
\* background and cover rules, and the reported font total is the number of
\* font files matched under fonts/.
C12_TotalsByKind ==
    Totalled =>
        /\ total_images = Cardinality(ImageFiles)
        /\ total_fonts = Cardinality(FontFiles)

\* the scanner rule a work item comes from: 1 background, 2 cover, 3 font
RuleOf(i) ==
    CASE ItemSrc(i).parent = BgDir   -> 1
      [] ItemSrc(i).parent = JpgsDir -> 2
      [] OTHER                       -> 3

\* the work items handed to the executor so far, and those still to be
\* (lines 160-168 submit the items in list order, and each submit creates
\* the item's future)
SubmittedItems == 1..Len(fstate)
UnsubmittedItems == (Len(fstate) + 1)..(Len(image_tasks) + Len(copy_tasks))

\* C13 as stated: every background task is submitted before every cover
\* task, and every cover task before every font task.
C13_SubmitInScanOrder ==
    Scanned =>
        \A j \in SubmittedItems : \A i \in UnsubmittedItems :
            RuleOf(j) <= RuleOf(i)

\* position of a work item in the order of submission classes: background
\* transcodes, cover transcodes, background copies, font copies
ClassOf(i) ==
    (IF ItemFn(i) = "convert_image_to_avif" THEN 0 ELSE 2)
    + (IF RuleOf(i) = 1 THEN 0 ELSE 1)

\* C13 as amended: every transcode task is submitted before every copy task;
\* among the transcode tasks the background ones come before the cover ones,
\* and among the copy tasks the background ones come before the font ones.
C13_SubmitImagesThenCopies ==
    Scanned =>
        \A j \in SubmittedItems : \A i \in UnsubmittedItems :
            ClassOf(j) <= ClassOf(i)

\* a background transcode, a cover transcode and a background copy are all
\* submitted, and the one submitted last has finished while the one
\* submitted first has not
C13_Witness ==
    /\ pcMain = "loop"
    /\ \E i, j, k \in AllItems :
          /\ ClassOf(i) = 0 /\ ClassOf(j) = 1 /\ ClassOf(k) = 2
          /\ k \in SubmittedItems
          /\ fstate[k] = "FINISHED"
          /\ fstate[i] # "FINISHED"

\* the work items produced by the background rule
BgItems == {i \in AllItems : ItemDst(i).dir = "backgrounds"}

\* C14: every background task has as its source a regular file directly
\* under jpgs/background with extension .jpg, .jpeg, .png or .avif in any
\* case; .avif sources are copy tasks, the others transcode tasks at
\* quality 85.
C14_BgTasksFromFiles ==
    Scanned =>
        \A i \in BgItems :
            /\ ItemSrc(i) \in src
            /\ ItemSrc(i).parent = BgDir
            /\ IsFile(ItemSrc(i))
            /\ Lower(ItemSrc(i).ext) \in {<<".", "j", "p", "g">>, <<".", "j", "p", "e", "g">>, <<".", "p", "n", "g">>, <<".", "a", "v", "i", "f">>}
            /\ IF Lower(ItemSrc(i).ext) = <<".", "a", "v", "i", "f">>
               THEN ItemFn(i) = "copy_file"
               ELSE /\ ItemFn(i) = "convert_image_to_avif"
                    /\ image_tasks[i].q = 85

\* a target file that holds one encoded image, whole (img.save has written
\* it and no other writer's bytes are in it)
WholeImage(f) == f.img.mode # "none"

\* the images written by a transcode, with the source entry of each
Transcoded ==
    { <<f, e>> \in tgtFiles \X src :
        /\ WholeImage(f)
        /\ f.by = e.id
        /\ \E i \in 1..Len(image_tasks) :
              /\ image_tasks[i].src = e
              /\ image_tasks[i].dst = [dir |-> f.dir, stem |-> f.stem,
                                       ext |-> f.ext] }

\* C15: for every source image mode, a transcode of a .png source writes an
\* image with an alpha channel, and a transcode of any other source writes
\* an opaque 3-channel image in which every source carrying alpha (in an
\* alpha-bearing mode or as a palette image with transparency) has been
\* composited onto white.
C15_AlphaByPolicy ==
    \A fe \in Transcoded :
        IF IsPng(fe[2])
        THEN fe[1].img.mode = "RGBA"
        ELSE /\ fe[1].img.mode = "RGB"
             /\ HasAlpha(fe[2].pic) => fe[1].img.over = "white"

\* the work items produced by the cover rule
CoverItems == {i \in AllItems : ItemDst(i).dir = "covers"}

\* C16: every cover task is a transcode of a regular file directly under
\* jpgs/ with extension .jpg, .jpeg or .png in any case, at quality 90 when
\* the extension is .png and 75 otherwise; the image it writes has an alpha
\* channel when the extension is .png and none otherwise; every such file
\* has a cover task.
C16_CoverTasks ==
    Scanned =>
        /\ \A i \in 1..Len(copy_tasks) : copy_tasks[i].dst.dir # "covers"
        /\ \A i \in 1..Len(image_tasks) :
              LET t == image_tasks[i]
                  x == Lower(t.src.ext)
              IN  t.dst.dir = "covers" =>
                      /\ t.src \in src
                      /\ t.src.parent = JpgsDir
                      /\ IsFile(t.src)
                      /\ x \in {<<".", "j", "p", "g">>, <<".", "j", "p", "e", "g">>, <<".", "p", "n", "g">>}
                      /\ t.q = IF x = <<".", "p", "n", "g">> THEN 90 ELSE 75
        /\ \A e \in src :
              (e.parent = JpgsDir /\ MatchesRule(e)) =>
                  \E i \in 1..Len(image_tasks) :
                      image_tasks[i].src = e /\ image_tasks[i].dst.dir = "covers"
        /\ \A f \in tgtFiles :
              (f.dir = "covers" /\ WholeImage(f)) =>
                  \E e \in src :
                      /\ e.id = f.by
                      /\ f.img.mode = IF Lower(e.ext) = <<".", "p", "n", "g">> THEN "RGBA"
                                      ELSE "RGB"

\* a run over a .png cover, a .jpg cover holding an image with alpha and a
\* directory named like a cover has ended with both covers transcoded
C16_Witness ==
    /\ Returned
    /\ \E e \in src : e.parent = JpgsDir /\ ~IsFile(e) /\ Lower(e.ext) = <<".", "p", "n", "g">>
    /\ \E i, j \in CoverItems :
          /\ image_tasks[i].q = 90 /\ image_tasks[j].q = 75
          /\ HasAlpha(ItemSrc(j).pic)
          /\ result[i] = "ok" /\ result[j] = "ok"
          /\ \E g \in tgtFiles :
                g.by = ItemSrc(j).id /\ g.img = Img("RGB", "white")

\* C17: when the source root does not exist, no step of the run changes the
\* target directory: it is neither deleted nor recreated and its directories
\* and files stay as they were.
C17_TargetUntouched ==
    [][~srcExists => UNCHANGED <<tgtExists, tgtDirs, tgtFiles>>]_vars

\* the run has reported the missing source root and returned, and the
\* target tree of the earlier run is all there
C17_Witness ==
    /\ pcMain = "aborted"
    /\ ~srcExists
    /\ tgtExists
    /\ tgtDirs = {"covers", "old"}
    /\ \A f \in StaleFiles : f \in tgtFiles

\* C18: the counter is at most the number of tasks whose operation has
\* finished; so is the count main is about to report, and so is every count
\* reported so far; the count total is reported only when all have finished.
C18_CounterBehindWork ==
    LET finished == Cardinality(Finished)
    IN  /\ counter <= finished
        /\ pcMain \in {"test", "progress", "printing"} => done <= finished
        /\ \A k \in 1..Len(progressLog) :
              /\ progressLog[k] <= finished
              /\ progressLog[k] = Len(image_tasks) + Len(copy_tasks) => AllDone

\* the line 20/total has been printed while exactly twenty tasks have
\* finished and another is still running
C18_Witness ==
    /\ progressLog = <<ProgressEvery>>
    /\ Cardinality(Finished) = ProgressEvery
    /\ counter = ProgressEvery
    /\ Running # {}

\* the pool threads of the two-thread runs
FairWorkers == 1..MaxWorkers(1)

\* pool thread w is inside safe_print, waiting for _print_lock
WaitsForPrint(w) ==
    /\ w \in Workers
    /\ wtask[w] # 0
    /\ wpc[w] \in {"name", "size", "fail", "copied"}
    /\ print_lock # w

\* main is inside safe_print, waiting for _print_lock (line 179)
MainWaitsForPrint == pcMain = "progress"

\* main is at the head of the loop with a finished future to collect, about
\* to ask for counter_lock (lines 173-174)
MainWaitsForCounter == pcMain = "loop" /\ yielded < Cardinality(Finished)

\* C19: no thread holds the counter lock and the print lock together (main
\* has left the counter lock when it asks for the print lock; pool threads
\* never take the counter lock); the print lock passes from one holder to
\* the next only through being free; and under fair scheduling every thread
\* waiting for a lock gets it, whether its task succeeded or failed: a wait
\* for a lock ends only with the waiting thread holding that lock, and no
\* thread waits for ever. Checked on the batch, where main asks for the
\* print lock while pool threads are printing.
C19_NoLockDeadlock ==
    /\ [](~(counter_lock = "main" /\ print_lock = 0))
    /\ [](pcMain \in {"progress", "printing"} => counter_lock = "free")
    /\ [][print_lock' # print_lock => (print_lock = -1 \/ print_lock' = -1)]_vars
    /\ [][\A w \in FairWorkers :
            (WaitsForPrint(w) /\ ~WaitsForPrint(w)') => print_lock' = w]_vars
    /\ [][(MainWaitsForPrint /\ ~MainWaitsForPrint') => print_lock' = 0]_vars
    /\ [][(MainWaitsForCounter /\ ~MainWaitsForCounter')
            => counter_lock' = "main"]_vars
    /\ \A w \in FairWorkers : []<>(~WaitsForPrint(w))
    /\ []<>(~MainWaitsForPrint)
    /\ []<>(~MainWaitsForCounter)

\* main has counted ProgressEvery completions and waits for the print lock
\* while a pool thread, whose task has failed, holds it
C19_Witness ==
    /\ MainWaitsForPrint
    /\ done = ProgressEvery
    /\ done < Total
    /\ \E w \in Workers :
          /\ print_lock = w
          /\ wpc[w] = "fail"

=============================================================================
